---- MODULE Spec2Model ----
(***************************************************************************)
(* Model of brettgws.sheets.a1.GoogleSheetsA1Notation: the A1 range        *)
(* notation class (column codec, regex parser, string generator and the    *)
(* mutating range operations).                                             *)
(*                                                                         *)
(* Strings are sequences of one-character strings, so that parsing and     *)
(* rendering are computed character by character as the code does.         *)
(***************************************************************************)
EXTENDS Integers, Sequences, FiniteSets, TLC

\* ------------------------------------------------------------------ bounds
\* Mutating calls made on one object after its construction.
MaxSteps == 2

\* --------------------------------------------------------------- constants
GoogleSheetsMaxColumns == 18278
\* 26 letters: the radix of the column labels (26 ** p in the code).
Radix == 26

\* -------------------------------------------------------------- characters
UpperSeq == << "A","B","C","D","E","F","G","H","I","J","K","L","M",
               "N","O","P","Q","R","S","T","U","V","W","X","Y","Z" >>
LowerSeq == << "a","b","c","d","e","f","g","h","i","j","k","l","m",
               "n","o","p","q","r","s","t","u","v","w","x","y","z" >>
DigitSeq == << "0","1","2","3","4","5","6","7","8","9" >>

Upper == { UpperSeq[i] : i \in 1..26 }
Lower == { LowerSeq[i] : i \in 1..26 }
Digit == { DigitSeq[i] : i \in 1..10 }
\* \w of the regular expressions (ASCII part)
WordChar == Upper \cup Lower \cup Digit \cup {"_"}
\* \s of the regular expressions: the inputs of the model hold no other
\* whitespace than the blank
SpaceChar == {" "}
DQ == "\""
SQ == "'"

AllIn(s, S) == \A k \in 1..Len(s) : s[k] \in S

\* str.upper() on one character
UpperChar(c) ==
  IF c \in Lower THEN UpperSeq[CHOOSE k \in 1..26 : LowerSeq[k] = c] ELSE c

\* str.upper()
upper(s) == [k \in 1..Len(s) |-> UpperChar(s[k])]

\* ord(v) - 64 for an upper case letter
Ord64(c) == CHOOSE k \in 1..26 : UpperSeq[k] = c

\* chr(d + 64): a letter for d in 1..26, otherwise a character that is no
\* letter ('?' is chr(63); every d < 1 gives a character below 'A')
Chr64(d) == IF d \in 1..26 THEN UpperSeq[d] ELSE "?"

\* 26 ** p
Pow26(p) == IF p = 0 THEN 1 ELSE IF p = 1 THEN Radix ELSE Radix * Radix

\* _A1COLREGEXSTR = ^[A-Z]{1,3}$
a1_col_re(s) == Len(s) \in 1..3 /\ AllIn(s, Upper)

\* ------------------------------------------------------------ column codec
\* the sum of ord * 26**i over the reversed label c (already upper case)
col_value(c) ==
  IF a1_col_re(c)
  THEN Ord64(c[Len(c)])
         + (IF Len(c) >= 2 THEN Ord64(c[Len(c) - 1]) * Pow26(1) ELSE 0)
         + (IF Len(c) >= 3 THEN Ord64(c[Len(c) - 2]) * Pow26(2) ELSE 0)
  ELSE 0

\* col_to_int: 0 when the upper cased label is not one to three letters
col_to_int(column) == col_value(upper(column))

\* one round of the loop of int_to_col, for the power p, on (col, i)
int_to_col_step(st, p) ==
  LET d == st.i \div Pow26(p)
      r == st.i % Pow26(p)
  IN  IF d # 0
      THEN IF d > 26
           THEN [col |-> Append(st.col, "Z"), i |-> r + (d - 26) * Pow26(p)]
           ELSE [col |-> Append(st.col, Chr64(d)), i |-> r]
      ELSE [col |-> st.col, i |-> r]

\* int_to_col: the divmod loop over p = 2, 1, 0
int_to_col(index) ==
  IF index <= GoogleSheetsMaxColumns
  THEN int_to_col_step(
         int_to_col_step(
           int_to_col_step([col |-> << >>, i |-> index], 2), 1), 0).col
  ELSE << >>

\* ------------------------------------------------------- string helpers
\* value of one decimal digit
DigitVal(c) == (CHOOSE k \in 1..10 : DigitSeq[k] = c) - 1

\* int(s) of a string of decimal digits (leading zeros allowed)
RECURSIVE int_of(_)
int_of(ds) ==
  IF ds = << >> THEN 0
  ELSE 10 * int_of(SubSeq(ds, 1, Len(ds) - 1)) + DigitVal(ds[Len(ds)])

\* str(n) of an integer n >= 0
RECURSIVE str_of(_)
str_of(n) ==
  IF n < 10 THEN << DigitSeq[n + 1] >>
  ELSE Append(str_of(n \div 10), DigitSeq[(n % 10) + 1])

\* number of leading characters of s that lie in S
RECURSIVE LeadCount(_, _)
LeadCount(s, S) ==
  IF s # << >> /\ s[1] \in S THEN 1 + LeadCount(Tail(s), S) ELSE 0

\* number of trailing characters of s that lie in S
RECURSIVE TrailCount(_, _)
TrailCount(s, S) ==
  IF s # << >> /\ s[Len(s)] \in S
  THEN 1 + TrailCount(SubSeq(s, 1, Len(s) - 1), S) ELSE 0

\* what a leading \s* consumes
LStrip(s) == SubSeq(s, LeadCount(s, SpaceChar) + 1, Len(s))
\* what a trailing \s*$ consumes
RStrip(s) == SubSeq(s, 1, Len(s) - TrailCount(s, SpaceChar))

\* ----------------------------------------------------- regular expressions
\* (\w+|\".+\"|\'.+\') matched against the whole of t
title_re(t) ==
  \/ Len(t) >= 1 /\ AllIn(t, WordChar)
  \/ Len(t) >= 3 /\ t[1] = DQ /\ t[Len(t)] = DQ
  \/ Len(t) >= 3 /\ t[1] = SQ /\ t[Len(t)] = SQ

\* _A1SHEETREGEXSTR = ^\s*(\w+|\".+\"|\'.+\') : re.match, so a prefix match
a1_sheet_re(t) ==
  LET b == LStrip(t)
  IN  /\ b # << >>
      /\ \/ b[1] \in WordChar
         \/ b[1] = DQ /\ \E k \in 3..Len(b) : b[k] = DQ
         \/ b[1] = SQ /\ \E k \in 3..Len(b) : b[k] = SQ

\* [A-Z]{0,3}\d* matched against the whole of one side of the colon, of
\* which the first n characters are letters
side_split(s, n) == n <= 3 /\ AllIn(SubSeq(s, n + 1, Len(s)), Digit)
side_re(s) == side_split(s, LeadCount(s, Upper))

\* the column letters and the row digits of one side of the colon
side_col(s) == SubSeq(s, 1, LeadCount(s, Upper))
side_row(s) == SubSeq(s, LeadCount(s, Upper) + 1, Len(s))

\* position of the first colon of b, 0 when it has none
ColonAt(b) ==
  IF \E k \in 1..Len(b) : b[k] = ":"
  THEN CHOOSE k \in 1..Len(b) : b[k] = ":" /\ \A j \in 1..(k - 1) : b[j] # ":"
  ELSE 0

\* (start_col? start_row? : end_col? end_row?) matched against the whole of
\* b, whose first colon is at c
bounds_at(b, c) ==
  /\ c > 0
  /\ side_re(SubSeq(b, 1, c - 1))
  /\ side_re(SubSeq(b, c + 1, Len(b)))
bounds_re(b) == bounds_at(b, ColonAt(b))

\* what may follow the sheet group: nothing, or the bounds group
rest_re(rest) == rest = << >> \/ bounds_re(rest)

\* the positions of a '!' that can end the sheet group so that the rest of
\* the expression still matches
SheetEnds(body) ==
  { k \in 1..Len(body) :
      /\ body[k] = "!"
      /\ title_re(SubSeq(body, 1, k - 1))
      /\ rest_re(SubSeq(body, k + 1, Len(body))) }

\* the greedy .+ of a quoted title takes the last of them; 0 for none
LastEnd(ends) ==
  IF ends = {} THEN 0 ELSE CHOOSE e \in ends : \A f \in ends : f <= e

\* the named groups of a match of _A1REGEXSTR
Match(sh, sc, sr, ec, er) ==
  [matched |-> TRUE, sheet |-> sh, start_col |-> sc, start_row |-> sr,
   end_col |-> ec, end_row |-> er]

NoMatch ==
  [matched |-> FALSE, sheet |-> << >>, start_col |-> << >>,
   start_row |-> << >>, end_col |-> << >>, end_row |-> << >>]

\* the groups of the two sides of the colon
match_sides(sh, lft, rgt) ==
  Match(sh, side_col(lft), side_row(lft), side_col(rgt), side_row(rgt))

\* the groups when the bounds group matches rest, whose first colon is at c
match_bounds(sh, rest, c) ==
  match_sides(sh, SubSeq(rest, 1, c - 1), SubSeq(rest, c + 1, Len(rest)))

\* the sheet group sh is followed by rest
match_rest(sh, rest) ==
  IF rest = << >> THEN Match(sh, << >>, << >>, << >>, << >>)
  ELSE IF bounds_re(rest) THEN match_bounds(sh, rest, ColonAt(rest))
       ELSE NoMatch

\* the sheet group ends with the '!' at k (k = 0: there is no sheet group)
match_sheet(body, k) ==
  match_rest(SubSeq(body, 1, k - 1), SubSeq(body, k + 1, Len(body)))

\* the expression between the leading ^\s* and the trailing \s*$
match_body(body) == match_sheet(body, LastEnd(SheetEnds(body)))

\* _A1REGEXSTR matched against a: the groups of the match
a1_re(a) == match_body(RStrip(LStrip(a)))

\* valid_a1
valid_a1(a) == a1_re(a).matched

\* ------------------------------------------------------------------ parser
Dims(s, sc, sr, ec, er) ==
  [sheet |-> s, sc |-> sc, sr |-> sr, ec |-> ec, er |-> er]

\* int(g) raises ValueError when g has more digits than the interpreter
\* converts (4300 by default)
int_raises(g) == Len(g) > 4300

\* one of the two int(m.group(...)) of extract_a1 raises
groups_raise(m) ==
  m.matched /\ (int_raises(m.start_row) \/ int_raises(m.end_row))

\* extract_a1(a) raises
extract_raises(a) == groups_raise(a1_re(a))

\* int(m.group(...)) when the group is present, else 0
row_of(g) == IF g # << >> THEN int_of(g) ELSE 0

\* extract_a1 without the inference of the start column and the start row
infer_nothing(s, sc, sr, ec, er) == Dims(s, sc, sr, ec, er)

\* an absent start column or start row becomes A or 1 when the other is there
infer_start(s, sc, sr, ec, er) ==
  IF sr # 0 /\ sc = << >> THEN Dims(s, << "A" >>, sr, ec, er)
  ELSE IF sc # << >> /\ sr = 0 THEN Dims(s, sc, 1, ec, er)
       ELSE Dims(s, sc, sr, ec, er)

\* extract_a1 without the second expression for a string that is a title only
extract_groups_no_fallback(a, m) ==
  IF m.matched
  THEN infer_start(m.sheet, m.start_col, row_of(m.start_row),
                   m.end_col, row_of(m.end_row))
  ELSE Dims(<< >>, << >>, 0, << >>, 0)

\* extract_a1 given the match m of _A1REGEXSTR: with no match, the second
\* expression (the sheet expression anchored at the end) gives a title only
extract_groups(a, m) ==
  IF m.matched
  THEN infer_start(m.sheet, m.start_col, row_of(m.start_row),
                   m.end_col, row_of(m.end_row))
  ELSE IF title_re(LStrip(a))
       THEN Dims(a, << >>, 0, << >>, 0)
       ELSE Dims(<< >>, << >>, 0, << >>, 0)

\* extract_a1: (title, start col, start row, end col, end row)
extract_a1(a) == extract_groups(a, a1_re(a))

\* valid_dimensions without the comparison of the two columns
valid_dimensions_unordered(dims) ==
  IF dims.sc = << >> /\ dims.sr = 0
  THEN ~(dims.ec # << >> \/ dims.er # 0 \/ dims.sheet = << >>)
  ELSE TRUE

\* valid_dimensions accepting an end bound where there is no start bound
valid_dimensions_end_only(dims) ==
  IF dims.sc = << >> /\ dims.sr = 0
  THEN dims.sheet # << >>
  ELSE IF dims.sc # << >> /\ dims.ec # << >>
       THEN col_to_int(dims.ec) >= col_to_int(dims.sc)
       ELSE TRUE

\* valid_dimensions
valid_dimensions(dims) ==
  IF dims.sc = << >> /\ dims.sr = 0
  THEN ~(dims.ec # << >> \/ dims.er # 0 \/ dims.sheet = << >>)
  ELSE IF dims.sc # << >> /\ dims.ec # << >>
       THEN col_to_int(dims.ec) >= col_to_int(dims.sc)
       ELSE TRUE

\* --------------------------------------------------------------- arguments
\* A column argument is a label (str) or an index (int); None is "keep".
None   == [t |-> "none", s |-> << >>, i |-> 0]
Lbl(s) == [t |-> "str", s |-> s, i |-> 0]
Idx(i) == [t |-> "int", s |-> << >>, i |-> i]

\* truth value of a str|int argument
Truthy(c) == IF c.t = "int" THEN c.i # 0 ELSE c.s # << >>

\* cls.int_to_col(c) if isinstance(c, int) else str(c)
ColStr(c) == IF c.t = "int" THEN int_to_col(c.i) ELSE c.s

\* --------------------------------------------------------------- generator
Returned(s) == [raised |-> FALSE, a1 |-> s]
\* a1 += sr with an int sr: TypeError
Raised == [raised |-> TRUE, a1 |-> << >>]

\* ^[a-zA-Z]+\w*$
bareword_re(t) ==
  t # << >> /\ t[1] \in (Upper \cup Lower) /\ AllIn(t, WordChar)

\* the title as generate_a1 renders it: wrapped in double quotes unless it
\* starts with a quote or is a bareword
render_title(t) ==
  IF t[1] = SQ \/ t[1] = DQ THEN t
  ELSE IF bareword_re(t) THEN t
       ELSE << DQ >> \o t \o << DQ >>

\* the end of the rendered string: ':' and the end column when it is a
\* label, with the end row when it is positive
render_end(end_col, ec, end_row) ==
  IF Truthy(end_col) /\ a1_col_re(ec)
  THEN << ":" >> \o ec \o (IF end_row > 0 THEN str_of(end_row) ELSE << >>)
  ELSE << >>

\* generate_a1 after the title is rendered as t and the columns are
\* converted to the labels sc and ec
generate_bounds(t, start_col, sc, start_row, end_col, ec, end_row) ==
  IF Truthy(start_col)
  THEN IF a1_col_re(sc)
       THEN Returned(t \o << "!" >> \o sc
                       \o (IF start_row > 0 THEN str_of(start_row) ELSE << >>)
                       \o render_end(end_col, ec, end_row))
       ELSE Returned(t)
  ELSE IF start_row > 0 THEN Raised ELSE Returned(t)

\* generate_a1
generate_a1(sheet, start_col, start_row, end_col, end_row) ==
  IF a1_sheet_re(sheet)
  THEN generate_bounds(render_title(sheet), start_col, ColStr(start_col),
                       start_row, end_col, ColStr(end_col), end_row)
  ELSE Returned(<< >>)

\* generate_a1 as update_a1 calls it, generate_a1(s, sc, ec, sr, er): the
\* end column label ec arrives as start_row and the start row sr as end_col.
\* int(start_row) of a label raises ValueError where the call reaches it;
\* the int end_col is converted to a label by int_to_col.
generate_a1_swapped(s, sc, ec, sr, er) ==
  IF ~a1_sheet_re(s) THEN Returned(<< >>)
  ELSE IF sc # << >> /\ ~a1_col_re(sc) THEN Returned(render_title(s))
  ELSE IF ec # << >> /\ ~AllIn(ec, Digit) THEN Raised
  ELSE generate_bounds(render_title(s), Lbl(sc), sc, int_of(ec),
                       Idx(sr), int_to_col(sr), er)

\* update_a1 once the string is parsed into dims
update_dims(dims, s_, sc_, sr_, ec_, er_) ==
  generate_a1_swapped(IF s_.t = "none" THEN dims.sheet ELSE s_.s,
                      IF sc_.t = "none" THEN dims.sc ELSE ColStr(sc_),
                      IF ec_.t = "none" THEN dims.ec ELSE ColStr(ec_),
                      IF sr_.t = "none" THEN dims.sr ELSE sr_.i,
                      IF er_.t = "none" THEN dims.er ELSE er_.i)

\* update_a1
update_a1(a, s_, sc_, sr_, ec_, er_) ==
  IF extract_raises(a) THEN Raised
  ELSE update_dims(extract_a1(a), s_, sc_, sr_, ec_, er_)

\* ------------------------------------------------------- the range object
\* The fields of one GoogleSheetsA1Notation object.
VARIABLES a1, sheet, start_col, end_col, start_col_int, end_col_int,
          start_row, end_row
\* The last call made on the object: its name, its arguments, what it
\* returned and the fields of the object before it.
VARIABLE last
\* Number of mutating calls made so far.
VARIABLE steps
\* The last call of a class method (a pure function) and its result.
VARIABLE call

fields == << a1, sheet, start_col, end_col, start_col_int, end_col_int,
             start_row, end_row >>
vars == << a1, sheet, start_col, end_col, start_col_int, end_col_int,
           start_row, end_row, last, steps, call >>

\* the object as a value
Self ==
  [a1 |-> a1, sheet |-> sheet, start_col |-> start_col, end_col |-> end_col,
   start_col_int |-> start_col_int, end_col_int |-> end_col_int,
   start_row |-> start_row, end_row |-> end_row]

\* the object takes the value r
Becomes(r) ==
  /\ a1' = r.a1
  /\ sheet' = r.sheet
  /\ start_col' = r.start_col
  /\ end_col' = r.end_col
  /\ start_col_int' = r.start_col_int
  /\ end_col_int' = r.end_col_int
  /\ start_row' = r.start_row
  /\ end_row' = r.end_row

\* reset
reset ==
  [a1 |-> << >>, sheet |-> << >>, start_col |-> << >>, end_col |-> << >>,
   start_col_int |-> 0, end_col_int |-> 0, start_row |-> 0, end_row |-> 0]

\* the fields set_a1 assigns for the string a with the dimensions dims
Parsed(a, dims) ==
  [a1 |-> a, sheet |-> dims.sheet,
   start_col |-> dims.sc, end_col |-> dims.ec,
   start_col_int |-> col_to_int(dims.sc),
   end_col_int |-> col_to_int(dims.ec),
   start_row |-> dims.sr, end_row |-> dims.er]

\* set_a1 storing the string before it validates the dimensions
set_dims_stores_first(r, a, dims) ==
  IF valid_dimensions(dims)
  THEN [ok |-> TRUE, r |-> Parsed(a, dims)]
  ELSE [ok |-> FALSE, r |-> [r EXCEPT !.a1 = a]]

\* set_a1 calling reset() before it validates the dimensions
set_dims_resets_first(r, a, dims) ==
  IF valid_dimensions(dims)
  THEN [ok |-> TRUE, r |-> Parsed(a, dims)]
  ELSE [ok |-> FALSE, r |-> reset]

\* set_a1 once the dimensions dims are extracted from a
set_dims(r, a, dims) ==
  IF valid_dimensions(dims)
  THEN [ok |-> TRUE, r |-> Parsed(a, dims)]
  ELSE [ok |-> FALSE, r |-> r]

\* set_a1: the object after the call and the value returned, for a string a
\* on which extract_a1 does not raise
set_a1(r, a) == set_dims(r, a, extract_a1(a))

\* __init__: the fields when the exception of extract_a1 leaves it are those
\* reset() assigned
construct(a) ==
  IF a # << >> /\ ~extract_raises(a) THEN set_a1(reset, a).r ELSE reset

\* __init__ raises: no object is constructed
construct_raises(a) == a # << >> /\ extract_raises(a)

\* valid
valid(r) == r.a1 # << >>

\* rows_bounded, cols_bounded, bounded (as truth values)
rows_bounded(r) == r.start_row # 0 /\ r.end_row # 0
cols_bounded(r) == r.start_col # << >> /\ r.end_col # << >>
bounded(r) == rows_bounded(r) /\ cols_bounded(r)

\* What a call gives: ret is "True", "False", "raise" (an exception left the
\* call) or "None" (a setter that returned); r is the object afterwards;
\* gen is what generate_a1 gave when the call rendered a string.
NotRendered == [raised |-> FALSE, a1 |-> << "-" >>]
Outcome(ret, r, gen) == [ret |-> ret, r |-> r, gen |-> gen]

\* the end of update: the result of set_a1 is the result of update
update_set(gen, set) == Outcome(IF set.ok THEN "True" ELSE "False", set.r, gen)

\* update once generate_a1 gave gen: set_a1(a1) if a1 else False
update_rendered(r, gen) ==
  IF gen.raised THEN Outcome("raise", r, gen)
  ELSE IF gen.a1 # << >> THEN update_set(gen, set_a1(r, gen.a1))
       ELSE Outcome("False", r, gen)

\* update
update(r, s_, sc_, sr_, ec_, er_) ==
  update_rendered(r,
    generate_a1(IF s_.t = "none" THEN r.sheet ELSE s_.s,
                Lbl(IF sc_.t = "none" THEN r.start_col ELSE ColStr(sc_)),
                IF sr_.t = "none" THEN r.start_row ELSE sr_.i,
                Lbl(IF ec_.t = "none" THEN r.end_col ELSE ColStr(ec_)),
                IF er_.t = "none" THEN r.end_row ELSE er_.i))

\* append_rows accepting a new end row of 0
append_rows_accepts_zero(r, rows) ==
  IF rows_bounded(r) /\ rows # 0
  THEN LET new_end_row == r.end_row + rows
       IN  IF new_end_row >= 0
           THEN update(r, None, None, None, None, Idx(new_end_row))
           ELSE Outcome("False", r, NotRendered)
  ELSE Outcome("True", r, NotRendered)

\* append_rows
append_rows(r, rows) ==
  IF rows_bounded(r) /\ rows # 0
  THEN LET new_end_row == r.end_row + rows
       IN  IF new_end_row > 0
           THEN update(r, None, None, None, None, Idx(new_end_row))
           ELSE Outcome("False", r, NotRendered)
  ELSE Outcome("True", r, NotRendered)

\* append_cols without the test that the columns are bounded
append_cols_ignores_bounded(r, cols) ==
  IF cols # 0
  THEN LET new_end_col == col_to_int(r.end_col) + cols
       IN  IF new_end_col > 0 /\ new_end_col <= GoogleSheetsMaxColumns
           THEN update(r, None, None, None, Idx(new_end_col), None)
           ELSE Outcome("False", r, NotRendered)
  ELSE Outcome("True", r, NotRendered)

\* append_cols
append_cols(r, cols) ==
  IF cols_bounded(r) /\ cols # 0
  THEN LET new_end_col == col_to_int(r.end_col) + cols
       IN  IF new_end_col > 0 /\ new_end_col <= GoogleSheetsMaxColumns
           THEN update(r, None, None, None, Idx(new_end_col), None)
           ELSE Outcome("False", r, NotRendered)
  ELSE Outcome("True", r, NotRendered)

\* reduce_rows
reduce_rows(r, rows) == append_rows(r, -rows)

\* reduce_cols
reduce_cols(r, cols) == append_cols(r, -cols)

\* reshape
reshape(r, rows, cols) ==
  IF rows >= 0 /\ cols >= 0
  THEN update(r, None, Idx(1), Idx(1), Idx(cols), Idx(rows))
  ELSE Outcome("False", r, NotRendered)

\* the a1 setter: raises ValueError when set_a1 fails
a1_set(set) == Outcome(IF set.ok THEN "None" ELSE "raise", set.r, NotRendered)
a1_setter(r, value) ==
  IF extract_raises(value) THEN Outcome("raise", r, NotRendered)
  ELSE a1_set(set_a1(r, value))

\* the sheet setter: update(sheet=value), its result dropped
sheet_set(u) == Outcome(IF u.ret = "raise" THEN "raise" ELSE "None", u.r, u.gen)
sheet_setter(r, value) == sheet_set(update(r, Lbl(value), None, None, None, None))

\* __len__: the number the method returns
__len__(r) ==
  IF bounded(r)
  THEN (r.end_row - r.start_row) * ((r.end_col_int - r.start_col_int) + 1)
  ELSE 0

\* len(range): the interpreter raises ValueError when __len__ returns a
\* negative number
LenResult(total) ==
  [raised |-> total < 0, value |-> IF total < 0 THEN 0 ELSE total]
len(r) == LenResult(__len__(r))

\* contains comparing the rows with > and < in place of >= and <=
contains_strict(r, a) ==
  IF valid(a) /\ valid(r) /\ a.sheet = r.sheet
  THEN IF bounded(r)
       THEN bounded(a) /\ a.start_col_int >= r.start_col_int
                       /\ a.end_col_int <= r.end_col_int
                       /\ a.start_row > r.start_row
                       /\ a.end_row < r.end_row
       ELSE IF rows_bounded(r)
            THEN rows_bounded(a) /\ a.start_row > r.start_row
                                 /\ a.end_row < r.end_row
            ELSE IF cols_bounded(r)
                 THEN cols_bounded(a) /\ a.start_col_int >= r.start_col_int
                                      /\ a.end_col_int <= r.end_col_int
                 ELSE TRUE
  ELSE FALSE

\* contains with an outer range that is unbounded holding bounded ranges only
contains_bounded_only(r, a) ==
  IF valid(a) /\ valid(r) /\ a.sheet = r.sheet
  THEN IF bounded(r)
       THEN bounded(a) /\ a.start_col_int >= r.start_col_int
                       /\ a.end_col_int <= r.end_col_int
                       /\ a.start_row >= r.start_row
                       /\ a.end_row <= r.end_row
       ELSE IF rows_bounded(r)
            THEN rows_bounded(a) /\ a.start_row >= r.start_row
                                 /\ a.end_row <= r.end_row
            ELSE IF cols_bounded(r)
                 THEN cols_bounded(a) /\ a.start_col_int >= r.start_col_int
                                      /\ a.end_col_int <= r.end_col_int
                 ELSE bounded(a)
  ELSE FALSE

\* contains with a bounded outer range accepting every inner range that is
\* not bounded
contains_accepts_unbounded_inner(r, a) ==
  IF valid(a) /\ valid(r) /\ a.sheet = r.sheet
  THEN IF bounded(r)
       THEN ~bounded(a) \/ (/\ a.start_col_int >= r.start_col_int
                            /\ a.end_col_int <= r.end_col_int
                            /\ a.start_row >= r.start_row
                            /\ a.end_row <= r.end_row)
       ELSE IF rows_bounded(r)
            THEN rows_bounded(a) /\ a.start_row >= r.start_row
                                 /\ a.end_row <= r.end_row
            ELSE IF cols_bounded(r)
                 THEN cols_bounded(a) /\ a.start_col_int >= r.start_col_int
                                      /\ a.end_col_int <= r.end_col_int
                 ELSE TRUE
  ELSE FALSE

\* __eq__ with another range: self._a1 == value falls to the reflected
\* value.__eq__(self._a1), the comparison of the two stored strings
__eq__(r, other) == r.a1 = other.a1

\* contains, given the other range a as an object
contains(r, a) ==
  IF valid(a) /\ valid(r) /\ a.sheet = r.sheet
  THEN IF bounded(r)
       THEN bounded(a) /\ a.start_col_int >= r.start_col_int
                       /\ a.end_col_int <= r.end_col_int
                       /\ a.start_row >= r.start_row
                       /\ a.end_row <= r.end_row
       ELSE IF rows_bounded(r)
            THEN rows_bounded(a) /\ a.start_row >= r.start_row
                                 /\ a.end_row <= r.end_row
            ELSE IF cols_bounded(r)
                 THEN cols_bounded(a) /\ a.start_col_int >= r.start_col_int
                                      /\ a.end_col_int <= r.end_col_int
                 ELSE TRUE
  ELSE FALSE

\* ------------------------------------------------------------------ inputs
\* Strings given to the constructor: [title!][startCol][startRow]:[endCol][endRow]
\* over a few titles, labels and row numbers, and some strings of other shapes.
InStartCols == { << >>, << "A" >>, << "E" >> }
InStartRows == { << >>, << "4" >> }
InEndCols   == { << >>, << "D" >>, << "A", "A" >>, << "Z", "Z", "Z" >> }
InEndRows   == { << >>, << "2" >> }

ColonForm(t, sc, sr, ec, er) ==
  (IF t = << >> THEN << >> ELSE t \o << "!" >>) \o sc \o sr \o << ":" >> \o ec \o er

OtherStrings ==
  { << >>,
    << "t" >>,
    << "t", "!" >>,
    << "t", ":" >>,
    << "t", "!", "A", "1" >>,
    << "t", "!", ":", "d", "3" >>,
    << "t", "!", "A", "0", ":", "B", "2" >>,
    << "t", "!", "C", "1", "0", ":", "D", "9" >>,
    << " ", "t" >>,
    << "1", "a", "!", "A", ":", "B" >>,
    << DQ, "a", " ", "b", DQ, "!", "A", "1", ":", "B", "2" >>,
    << "A", "4", ":", "D", "2" >>,
    << "4", ":", "9" >>,
    << "A", ":", "D" >>,
    << "A", "1", ":", "B", "2", " " >>,
    << ":", "D", "3" >>,
    << ":" >>,
    << " " >> }

\* a row number of 4301 digits
LongRowStrings ==
  { << "t", "!", "A" >> \o [k \in 1..4301 |-> "1"] \o << ":", "B", "2" >> }

InitStrings ==
  { ColonForm(<< "t" >>, sc, sr, ec, er) :
      sc \in InStartCols, sr \in InStartRows,
      ec \in InEndCols, er \in InEndRows } \cup OtherStrings

\* Overrides given to update: none, one field, or several fields at once.
Only(s, sc, sr, ec, er) == << s, sc, sr, ec, er >>

UpdateArgs ==
  { Only(None, None, None, None, None),
    Only(Lbl(<< "o" >>), None, None, None, None),
    Only(Lbl(<< "a", " ", "b" >>), None, None, None, None),
    Only(Lbl(<< >>), None, None, None, None),
    Only(None, Lbl(<< "B" >>), None, None, None),
    Only(None, Lbl(<< "E" >>), None, None, None),
    Only(None, Lbl(<< >>), None, None, None),
    Only(None, None, Idx(2), None, None),
    Only(None, None, None, Lbl(<< "D" >>), None),
    Only(None, None, None, Idx(26), None),
    Only(None, None, None, Idx(0), None),
    Only(None, None, None, None, Idx(5)),
    Only(None, None, None, None, Idx(0)),
    Only(None, Lbl(<< "B" >>), None, Lbl(<< "D" >>), None),
    Only(Lbl(<< "t" >>), Lbl(<< "A" >>), Idx(1), Lbl(<< "B" >>), Idx(2)) }

RowDeltas   == { -10, -1, 0, 2 }
ColDeltas   == { -30, -1, 0, 1 }
\* the amounts given to +=, -=, *= and /=
OpRowDeltas == { -1, 2 }
OpColDeltas == { -1, 1 }
\* reshape(rows, cols)
ShapeArgs   == { << 3, 26 >>, << 0, 0 >>, << 3, 0 >>, << 0, 2 >>,
                 << -1, 2 >>, << 3, -1 >> }
SetStrings  == { << "t", "!", "B", "2", ":", "C", "3" >>,
                 << "t", "!", "F", "2", ":", "A", "3" >>,
                 << "t", "!", ":", "D", "3" >> }
SheetValues == { << "o" >>, << "a", " ", "b" >>, << "'" >>, << "-", "x" >> }

\* ----------------------------------------------------------------- actions
NoCall == [fn |-> "none"]

Args(u, n, m, str) == [upd |-> u, n |-> n, m |-> m, str |-> str]
NoUpd == << None, None, None, None, None >>

InitObj(r) ==
  /\ a1 = r.a1
  /\ sheet = r.sheet
  /\ start_col = r.start_col
  /\ end_col = r.end_col
  /\ start_col_int = r.start_col_int
  /\ end_col_int = r.end_col_int
  /\ start_row = r.start_row
  /\ end_row = r.end_row

\* The state after GoogleSheetsA1Notation(s).
Init ==
  \E s \in InitStrings \cup LongRowStrings :
    /\ InitObj(construct(s))
    /\ last = [op |-> "__init__", arg |-> Args(NoUpd, 0, 0, s),
               ret |-> IF construct_raises(s) THEN "raise" ELSE "None",
               gen |-> NotRendered, pre |-> reset]
    /\ steps = 0
    /\ call = NoCall

\* one mutating call on the object constructed: the object takes the
\* outcome's value
Called(op, arg, out) ==
  /\ steps < MaxSteps
  /\ ~(last.op = "__init__" /\ last.ret = "raise")
  /\ Becomes(out.r)
  /\ last' = [op |-> op, arg |-> arg, ret |-> out.ret, gen |-> out.gen,
              pre |-> Self]
  /\ steps' = steps + 1
  /\ UNCHANGED call

Update ==
  \E u \in UpdateArgs :
    Called("update", Args(u, 0, 0, << >>),
           update(Self, u[1], u[2], u[3], u[4], u[5]))

AppendRows ==
  \E n \in RowDeltas :
    Called("append_rows", Args(NoUpd, n, 0, << >>), append_rows(Self, n))

ReduceRows ==
  \E n \in RowDeltas :
    Called("reduce_rows", Args(NoUpd, n, 0, << >>), reduce_rows(Self, n))

AppendCols ==
  \E n \in ColDeltas :
    Called("append_cols", Args(NoUpd, n, 0, << >>), append_cols(Self, n))

ReduceCols ==
  \E n \in ColDeltas :
    Called("reduce_cols", Args(NoUpd, n, 0, << >>), reduce_cols(Self, n))

\* self += rows, self -= rows, self *= cols, self /= cols: the call's result
\* is dropped and the object itself is the value of the statement
Dropped(out) == Outcome(IF out.ret = "raise" THEN "raise" ELSE "self", out.r, out.gen)

IAdd ==
  \E n \in OpRowDeltas :
    Called("__iadd__", Args(NoUpd, n, 0, << >>), Dropped(append_rows(Self, n)))

ISub ==
  \E n \in OpRowDeltas :
    Called("__isub__", Args(NoUpd, n, 0, << >>), Dropped(reduce_rows(Self, n)))

IMul ==
  \E n \in OpColDeltas :
    Called("__imul__", Args(NoUpd, n, 0, << >>), Dropped(append_cols(Self, n)))

ITrueDiv ==
  \E n \in OpColDeltas :
    Called("__itruediv__", Args(NoUpd, n, 0, << >>), Dropped(reduce_cols(Self, n)))

Reshape ==
  \E a \in ShapeArgs :
    Called("reshape", Args(NoUpd, a[1], a[2], << >>), reshape(Self, a[1], a[2]))

SetA1 ==
  \E v \in SetStrings :
    Called("a1.setter", Args(NoUpd, 0, 0, v), a1_setter(Self, v))

SetSheet ==
  \E v \in SheetValues :
    Called("sheet.setter", Args(NoUpd, 0, 0, v), sheet_setter(Self, v))

Next ==
  \/ Update
  \/ AppendRows
  \/ ReduceRows
  \/ AppendCols
  \/ ReduceCols
  \/ IAdd
  \/ ISub
  \/ IMul
  \/ ITrueDiv
  \/ Reshape
  \/ SetA1
  \/ SetSheet

Spec == Init /\ [][Next]_vars

\* the five components of a range value
Components(r) == Dims(r.sheet, r.start_col, r.start_row, r.end_col, r.end_row)

\* ------------------------------------------- update_a1 as a pure function
\* update_a1 called on the string of a valid Range, next to update called on
\* the Range with the same overrides.
InitUpdateA1 ==
  \E s \in InitStrings :
    /\ valid(construct(s))
    /\ InitObj(construct(s))
    /\ last = [op |-> "__init__", arg |-> Args(NoUpd, 0, 0, s), ret |-> "None",
               gen |-> NotRendered, pre |-> reset]
    /\ steps = 0
    /\ call = NoCall

CallUpdateA1 ==
  /\ call = NoCall
  /\ \E u \in UpdateArgs :
       call' = [fn |-> "update_a1", upd |-> u,
                ret |-> update_a1(a1, u[1], u[2], u[3], u[4], u[5]),
                inst |-> update(Self, u[1], u[2], u[3], u[4], u[5])]
  /\ UNCHANGED << fields, last, steps >>

NextUpdateA1 == CallUpdateA1

SpecUpdateA1 == InitUpdateA1 /\ [][NextUpdateA1]_vars

\* ------------------------------------------ the values request helpers
\* GoogleSheetsEnum: the tables of accepted option strings, as
\* (key, value sent to the service) pairs
_VALID_VALUE_RENDER_OPTIONS ==
  { << << "F", "O", "R", "M", "A", "T", "T", "E", "D" >>,
       << "F", "O", "R", "M", "A", "T", "T", "E", "D", "_", "V", "A", "L", "U", "E" >> >>,
    << << "F", "O", "R", "M", "A", "T", "T", "E", "D", "_", "V", "A", "L", "U", "E" >>,
       << "F", "O", "R", "M", "A", "T", "T", "E", "D", "_", "V", "A", "L", "U", "E" >> >>,
    << << "U", "N", "F", "O", "R", "M", "A", "T", "T", "E", "D" >>,
       << "U", "N", "F", "O", "R", "M", "A", "T", "T", "E", "D", "_", "V", "A", "L", "U", "E" >> >>,
    << << "U", "N", "F", "O", "R", "M", "A", "T", "T", "E", "D", "_", "V", "A", "L", "U", "E" >>,
       << "U", "N", "F", "O", "R", "M", "A", "T", "T", "E", "D", "_", "V", "A", "L", "U", "E" >> >>,
    << << "F", "O", "R", "M", "U", "L", "A" >>,
       << "F", "O", "R", "M", "A", "U", "L", "A" >> >> }

_VALID_DATE_TIME_RENDER_OPTIONS ==
  { << << "S", "E", "R", "I", "A", "L" >>,
       << "S", "E", "R", "I", "A", "L", "_", "N", "U", "M", "B", "E", "R" >> >>,
    << << "S", "E", "R", "I", "A", "L", "_", "N", "U", "M", "B", "E", "R" >>,
       << "S", "E", "R", "I", "A", "L", "_", "N", "U", "M", "B", "E", "R" >> >>,
    << << "F", "O", "R", "M", "A", "T", "T", "E", "D" >>,
       << "F", "O", "R", "M", "A", "T", "T", "E", "D", "_", "S", "T", "R", "I", "N", "G" >> >>,
    << << "F", "O", "R", "M", "A", "T", "T", "E", "D", "_", "S", "T", "R", "I", "N", "G" >>,
       << "F", "O", "R", "M", "A", "T", "T", "E", "D", "_", "S", "T", "R", "I", "N", "G" >> >> }

_VALID_DIMENSION_OPTIONS ==
  { << << "R", "O", "W", "S" >>,
       << "R", "O", "W", "S" >> >>,
    << << "R" >>,
       << "R", "O", "W", "S" >> >>,
    << << "C" >>,
       << "C", "O", "L", "U", "M", "N", "S" >> >>,
    << << "C", "O", "L", "S" >>,
       << "C", "O", "L", "U", "M", "N", "S" >> >>,
    << << "C", "O", "L", "U", "M", "N", "S" >>,
       << "C", "O", "L", "U", "M", "N", "S" >> >> }

_VALID_VALUE_INPUT_OPTIONS ==
  { << << "R", "A", "W" >>,
       << "R", "A", "W" >> >>,
    << << "U", "S", "E", "R" >>,
       << "U", "S", "E", "R", "_", "E", "N", "T", "E", "R", "E", "D" >> >>,
    << << "U", "S", "E", "R", "_", "E", "N", "T", "E", "R", "E", "D" >>,
       << "U", "S", "E", "R", "_", "E", "N", "T", "E", "R", "E", "D" >> >> }

\* table.get(key, "")
Get(table, key) ==
  IF \E e \in table : e[1] = key
  THEN (CHOOSE e \in table : e[1] = key)[2]
  ELSE << >>

valueRenderOption(option) == Get(_VALID_VALUE_RENDER_OPTIONS, upper(option))
dateTimeRenderOption(option) == Get(_VALID_DATE_TIME_RENDER_OPTIONS, upper(option))
\* dimension looks the string up as given, without upper()
dimension(dim) == Get(_VALID_DIMENSION_OPTIONS, dim)
valueInputOption(option) == Get(_VALID_VALUE_INPUT_OPTIONS, upper(option))

FORMATTED_VALUE == << "F", "O", "R", "M", "A", "T", "T", "E", "D", "_", "V", "A", "L", "U", "E" >>

\* What a helper call gives: raised when ValueError left the call, requests
\* the number of batchGet/batchUpdate requests it issued, sent the options
\* of the request.
Rejected == [raised |-> TRUE, requests |-> 0, sent |-> << >>]
Issued(n, first, value_render, date_time_render) ==
  [raised |-> FALSE, requests |-> IF n > 0 THEN 1 ELSE 0,
   sent |-> IF n > 0 THEN << first, value_render, date_time_render >>
            ELSE << >>]

\* the last check of both helpers and the request: the dateTimeRenderOption
\* is only checked when the value render option is not FORMATTED_VALUE
render_checks(n, first, value_render, date_time_render) ==
  IF value_render = << >> THEN Rejected
  ELSE IF date_time_render = << >> /\ value_render # FORMATTED_VALUE
       THEN Rejected
       ELSE Issued(n, first, value_render, date_time_render)

\* getValues with n ranges
getValues(n, dim, vr, dt) ==
  IF dimension(dim) = << >> THEN Rejected
  ELSE render_checks(n, dimension(dim), valueRenderOption(vr),
                     dateTimeRenderOption(dt))

\* updateValues with n value ranges
updateValues(n, vi, vr, dt) ==
  IF valueInputOption(vi) = << >> THEN Rejected
  ELSE render_checks(n, valueInputOption(vi), valueRenderOption(vr),
                     dateTimeRenderOption(dt))

\* option strings given to the helpers
DimensionInputs ==
  { << "R", "O", "W", "S" >>,
    << "C" >>,
    << "r", "o", "w", "s" >>,
    << "X" >> }
ValueRenderInputs ==
  { << "F", "O", "R", "M", "A", "T", "T", "E", "D" >>,
    << "u", "n", "f", "o", "r", "m", "a", "t", "t", "e", "d" >>,
    << "F", "O", "R", "M", "U", "L", "A" >>,
    << "b", "o", "g", "u", "s" >> }
DateTimeInputs ==
  { << "S", "E", "R", "I", "A", "L" >>,
    << "f", "o", "r", "m", "a", "t", "t", "e", "d", "_", "s", "t", "r", "i", "n", "g" >>,
    << "b", "o", "g", "u", "s" >> }
ValueInputInputs ==
  { << "U", "S", "E", "R" >>,
    << "r", "a", "w" >>,
    << "b", "o", "g", "u", "s" >> }
\* number of ranges (value ranges) given
RangeCounts == { 0, 1 }

\* ---------------------------------------------- the codec as pure functions
\* The column codec called on its own: an index is turned into a label and
\* back, a label into an index and back.
IndexInputs == 1..GoogleSheetsMaxColumns
LabelInputs ==
  { << x >> : x \in Upper }
    \cup { << x, y >> : x \in Upper, y \in Upper }
    \cup { << x, y, z >> : x \in Upper, y \in Upper, z \in Upper }

Idle ==
  /\ InitObj(reset)
  /\ last = [op |-> "none", arg |-> Args(NoUpd, 0, 0, << >>), ret |-> "None",
             gen |-> NotRendered, pre |-> reset]
  /\ steps = 0

InitCodec ==
  /\ Idle
  /\ \/ \E i \in IndexInputs :
          call = [fn |-> "codec", from |-> "index", index |-> i,
                  label |-> << >>, back_index |-> 0, back_label |-> << >>,
                  pc |-> 0]
     \/ \E l \in LabelInputs :
          call = [fn |-> "codec", from |-> "label", index |-> 0,
                  label |-> l, back_index |-> 0, back_label |-> << >>,
                  pc |-> 0]

\* int_to_col applied to the index given, or to the index col_to_int gave
CallIntToCol ==
  /\ \/ /\ call.from = "index" /\ call.pc = 0
        /\ call' = [call EXCEPT !.label = int_to_col(call.index), !.pc = 1]
     \/ /\ call.from = "label" /\ call.pc = 1
        /\ call' = [call EXCEPT !.back_label = int_to_col(call.index), !.pc = 2]
  /\ UNCHANGED << fields, last, steps >>

\* col_to_int applied to the label given, or to the label int_to_col gave
CallColToInt ==
  /\ \/ /\ call.from = "label" /\ call.pc = 0
        /\ call' = [call EXCEPT !.index = col_to_int(call.label), !.pc = 1]
     \/ /\ call.from = "index" /\ call.pc = 1
        /\ call' = [call EXCEPT !.back_index = col_to_int(call.label), !.pc = 2]
  /\ UNCHANGED << fields, last, steps >>

NextCodec ==
  \/ CallIntToCol
  \/ CallColToInt

SpecCodec == InitCodec /\ [][NextCodec]_vars

\* --------------------------------- the request helpers as pure functions
\* getValues and updateValues called with option strings and a number of
\* ranges; the call records whether it raised and what it requested.
InitOps ==
  /\ Idle
  /\ call = NoCall

CallGetValues ==
  /\ call = NoCall
  /\ \E n \in RangeCounts, dim \in DimensionInputs,
        vr \in ValueRenderInputs, dt \in DateTimeInputs :
       call' = [fn |-> "getValues", n |-> n, first |-> dim,
                valueRenderOption |-> vr, dateTimeRenderOption |-> dt,
                out |-> getValues(n, dim, vr, dt)]
  /\ UNCHANGED << fields, last, steps >>

CallUpdateValues ==
  /\ call = NoCall
  /\ \E n \in RangeCounts, vi \in ValueInputInputs,
        vr \in ValueRenderInputs, dt \in DateTimeInputs :
       call' = [fn |-> "updateValues", n |-> n, first |-> vi,
                valueRenderOption |-> vr, dateTimeRenderOption |-> dt,
                out |-> updateValues(n, vi, vr, dt)]
  /\ UNCHANGED << fields, last, steps >>

NextOps ==
  \/ CallGetValues
  \/ CallUpdateValues

SpecOps == InitOps /\ [][NextOps]_vars

\* ---------------------------------- generate_a1 and extract_a1 as functions
\* generate_a1 called with the components of a valid Range, and the string it
\* returns parsed again.
RoundTripInputs ==
  { Components(construct(s)) : s \in { x \in InitStrings : valid(construct(x)) } }

InitRoundTrip ==
  /\ Idle
  /\ \E d \in RoundTripInputs :
       call = [fn |-> "round_trip", dims |-> d, gen |-> NotRendered,
               parsed |-> Dims(<< >>, << >>, 0, << >>, 0), valid |-> FALSE,
               pc |-> 0]

CallGenerate ==
  /\ call.pc = 0
  /\ call' = [call EXCEPT
                !.gen = generate_a1(call.dims.sheet, Lbl(call.dims.sc),
                                    call.dims.sr, Lbl(call.dims.ec),
                                    call.dims.er),
                !.pc = 1]
  /\ UNCHANGED << fields, last, steps >>

CallExtract ==
  /\ call.pc = 1
  /\ ~call.gen.raised
  /\ call' = [call EXCEPT
                !.parsed = extract_a1(call.gen.a1),
                !.valid = valid(construct(call.gen.a1)),
                !.pc = 2]
  /\ UNCHANGED << fields, last, steps >>

NextRoundTrip ==
  \/ CallGenerate
  \/ CallExtract

SpecRoundTrip == InitRoundTrip /\ [][NextRoundTrip]_vars

\* ------------------------------------------- the queries contains and len
\* A Range is constructed from a string and then asked contains(other), the
\* other range given as a string, or len().
RowForms ==
  { << "A", "3", ":", "B", "9" >>, << "A", "5", ":", "B", "2" >>,
    << "A", "4", ":", "B", "8" >>, << "B", "3", ":", "C", "9" >>,
    << "3", ":", "9" >>, << "4", ":", "1", "2" >>, << "5", ":", "2" >>,
    << "A", ":", "C" >>, << "B", ":", "B" >>, << "B", ":", "D" >>,
    << "B", "2", ":" >>, << ":" >>, << "A", "3", ":", "9" >> }

QueryStrings ==
  { << "t", "!" >> \o b : b \in RowForms }
    \cup { << "o", "!" >> \o b : b \in RowForms }
    \cup { << "t" >>, << "o" >>, << >>, << "t", "!", ":", "B", "9" >>,
           << "A", "3", ":", "B", "9" >>, << "A", "4", ":", "B", "8" >>,
           << DQ, "t", DQ, "!", "A", "4", ":", "B", "8" >>,
           << DQ, "t", DQ >>,
           << DQ, "a", " ", "b", DQ, "!", "A", "4", ":", "B", "8" >>,
           << DQ, "a", " ", "b", DQ, "!", "A", "3", ":", "B", "9" >> }

InitQuery ==
  \E s \in QueryStrings :
    /\ InitObj(construct(s))
    /\ last = [op |-> "__init__", arg |-> Args(NoUpd, 0, 0, s), ret |-> "None",
               gen |-> NotRendered, pre |-> reset]
    /\ steps = 0
    /\ call = NoCall

\* contains(v): the other range is constructed from the string v
CallContains ==
  /\ call = NoCall
  /\ \E v \in QueryStrings :
       call' = [fn |-> "contains", other |-> construct(v),
                ret |-> contains(Self, construct(v)),
                raised |-> FALSE, value |-> 0]
  /\ UNCHANGED << fields, last, steps >>

\* len(range)
CallLen ==
  /\ call = NoCall
  /\ call' = [fn |-> "len", other |-> reset, ret |-> FALSE,
              raised |-> len(Self).raised, value |-> len(Self).value]
  /\ UNCHANGED << fields, last, steps >>

\* range == GoogleSheetsA1Notation(v)
CallEq ==
  /\ call = NoCall
  /\ \E v \in QueryStrings :
       call' = [fn |-> "eq", other |-> construct(v),
                ret |-> __eq__(Self, construct(v)),
                raised |-> FALSE, value |-> 0]
  /\ UNCHANGED << fields, last, steps >>

\* contains asked of three ranges: this range of the one constructed from v,
\* that one of the one constructed from w, and this range of the latter
CallContainsChain ==
  /\ call = NoCall
  /\ \E v, w \in QueryStrings :
       call' = [fn |-> "chain", other |-> construct(v), third |-> construct(w),
                ab |-> contains(Self, construct(v)),
                bc |-> contains(construct(v), construct(w)),
                ac |-> contains(Self, construct(w))]
  /\ UNCHANGED << fields, last, steps >>

NextQuery ==
  \/ CallContains
  \/ CallLen
  \/ CallEq
  \/ CallContainsChain

SpecQuery == InitQuery /\ [][NextQuery]_vars

\* =================================================================== claims
\* ------------------------------------------------------------------- C1
\* C1: generator/parser round trip. For the components of every valid Range
\* generate_a1 returns, without raising, a string that parses as valid, and
\* extract_a1 of that string gives the same five components.
C1_RoundTrip ==
  /\ (call.fn = "round_trip" /\ call.pc >= 1) => ~call.gen.raised
  /\ (call.fn = "round_trip" /\ call.pc = 2)
       => (call.valid /\ call.parsed = call.dims)

\* ------------------------------------------------------------------- C2
\* C2: the column codec is a bijection between 1..18278 and A..ZZZ:
\* col_to_int(int_to_col(i)) = i for every index i in 1..18278 and
\* int_to_col(col_to_int(s)) = s for every label s of one to three letters.
C2_CodecBijection ==
  (call.fn = "codec" /\ call.pc = 2)
    => IF call.from = "index"
       THEN call.back_index = call.index
       ELSE call.back_label = call.label


\* the amount the last call adds to the end bound
Delta ==
  IF last.op \in {"reduce_rows", "reduce_cols", "__isub__", "__itruediv__"}
  THEN -last.arg.n ELSE last.arg.n

\* ------------------------------------------------------------------- C3
\* C3: a Range is never seen half updated. In every reachable state either
\* the object is invalid with an empty string and every component empty or 0,
\* or its title and four bounds are the components parsed from its stored
\* string and its two column indexes are col_to_int of its stored labels.
C3_NeverPartiallyUpdated ==
  \/ Self = reset
  \/ /\ a1 # << >>
     /\ Components(Self) = extract_a1(a1)
     /\ start_col_int = col_to_int(start_col)
     /\ end_col_int = col_to_int(end_col)

\* a call failed on an object that an earlier call had already changed
C3_Witness ==
  /\ steps = 2
  /\ last.ret = "False"
  /\ sheet = << "o" >>
  /\ end_col # << >>

\* ------------------------------------------------------------------- C4
\* C4: whenever a valid Range has both a start and an end column, the end
\* column index is not below the start column index, after construction and
\* after every call; rows are not ordered (start row above end row is valid).
C4_ColumnsOrdered ==
  (a1 # << >> /\ start_col # << >> /\ end_col # << >>)
    => /\ end_col_int >= start_col_int
       /\ col_to_int(end_col) >= col_to_int(start_col)

\* a successful update left a valid Range whose start row is above its end row
C4_Witness ==
  /\ last.op = "update"
  /\ last.ret = "True"
  /\ start_col # << >> /\ end_col # << >>
  /\ end_row # 0 /\ start_row > end_row

\* ------------------------------------------------------------------- C6
\* C6: when the string update rendered fails validation, update returns False
\* and the Range keeps the string and components it had; a failed update
\* never changes the Range (so never turns a valid Range invalid).
RenderedInvalid ==
  /\ ~last.gen.raised
  /\ \/ last.gen.a1 = << >>
     \/ ~valid_dimensions(extract_a1(last.gen.a1))

C6_FailedUpdateKeepsRange ==
  (last.op = "update")
    => /\ RenderedInvalid => last.ret = "False"
       /\ last.ret = "False" => Self = last.pre

\* update(start_col='E') on a valid Range that ends at column D
C6_Witness ==
  /\ last.op = "update"
  /\ last.arg.upd[2] = Lbl(<< "E" >>)
  /\ last.pre.end_col = << "D" >>
  /\ last.pre.a1 # << >>
  /\ last.gen.a1 # << >>
  /\ RenderedInvalid
  /\ last.ret = "False"

\* ------------------------------------------------------------------- C9
\* C9: on a bounded dimension, append_rows/reduce_rows that would make the
\* end row <= 0, and append_cols/reduce_cols that would make the end column
\* index <= 0 or > 18278, return False (they do not raise) and leave the
\* Range's string and components as they were.
RowsRejected ==
  /\ last.op \in {"append_rows", "reduce_rows"}
  /\ rows_bounded(last.pre)
  /\ last.pre.end_row + Delta <= 0

ColsRejected ==
  /\ last.op \in {"append_cols", "reduce_cols"}
  /\ cols_bounded(last.pre)
  /\ \/ last.pre.end_col_int + Delta <= 0
     \/ last.pre.end_col_int + Delta > GoogleSheetsMaxColumns

C9_RejectedArithmeticUnchanged ==
  (RowsRejected \/ ColsRejected) => (last.ret = "False" /\ Self = last.pre)

\* append_cols(1) on a Range that ends at column ZZZ
C9_Witness ==
  /\ ColsRejected
  /\ last.op = "append_cols"
  /\ last.pre.end_col = << "Z", "Z", "Z" >>
  /\ last.ret = "False"

\* ------------------------------------------------------------------- C5
\* the overrides of the last update applied to the components before it
StrOver(o, old) == IF o.t = "none" THEN old ELSE o.s
IntOver(o, old) == IF o.t = "none" THEN old ELSE o.i

Merged ==
  Dims(StrOver(last.arg.upd[1], last.pre.sheet),
       StrOver(last.arg.upd[2], last.pre.start_col),
       IntOver(last.arg.upd[3], last.pre.start_row),
       StrOver(last.arg.upd[4], last.pre.end_col),
       IntOver(last.arg.upd[5], last.pre.end_row))

\* components that form a valid range as they stand: a title that needs no
\* quoting (or none), labels of one to three letters, a start column exactly
\* when there is a start row, and dimensions that are valid
FormValidRange(d) ==
  /\ d.sheet = << >> \/ bareword_re(d.sheet)
  /\ d.sc = << >> \/ a1_col_re(d.sc)
  /\ d.ec = << >> \/ a1_col_re(d.ec)
  /\ d.sr >= 0 /\ d.er >= 0
  /\ (d.sc # << >>) <=> (d.sr # 0)
  /\ valid_dimensions(d)

\* C5: update applies exactly the given overrides. For a valid Range and
\* overrides (labels, rows, a title) whose substitution into the current
\* components forms a valid range, update returns True and afterwards the
\* components are the old ones with the overrides substituted; with no
\* override nothing changes and the call succeeds.
C5_UpdateAppliesOverrides ==
  (/\ last.op = "update"
   /\ last.pre.a1 # << >>
   /\ last.arg.upd[2].t # "int" /\ last.arg.upd[4].t # "int"
   /\ FormValidRange(Merged))
    => (last.ret = "True" /\ Components(Self) = Merged)

\* ------------------------------------------------------------------- C7
\* C7: append_rows(n) (and += n) on a valid Range with a start row and an end
\* row, with n # 0 and end row + n > 0, returns True and afterwards the end
\* row is the old one plus n and title, start column, start row and end
\* column are unchanged.
C7_AppendRowsAddsToEndRow ==
  (/\ last.op \in {"append_rows", "__iadd__"}
   /\ last.pre.a1 # << >>
   /\ rows_bounded(last.pre)
   /\ last.arg.n # 0
   /\ last.pre.end_row + last.arg.n > 0)
    => /\ last.op = "append_rows" => last.ret = "True"
       /\ Components(Self) =
            [Components(last.pre) EXCEPT !.er = last.pre.end_row + last.arg.n]

\* ------------------------------------------------------------------- C8
\* C8: append_cols(n) (and *= n) on a valid Range with a start and an end
\* column, with n # 0 and start index <= end index + n <= 18278, returns True
\* and afterwards the end column index is the old one plus n, the end column
\* is the label of that index, and title, start column, start row and end
\* row are unchanged.
C8_AppendColsAddsToEndCol ==
  (/\ last.op \in {"append_cols", "__imul__"}
   /\ last.pre.a1 # << >>
   /\ cols_bounded(last.pre)
   /\ last.arg.n # 0
   /\ last.pre.start_col_int <= last.pre.end_col_int + last.arg.n
   /\ last.pre.end_col_int + last.arg.n <= GoogleSheetsMaxColumns)
    => /\ last.op = "append_cols" => last.ret = "True"
       /\ end_col_int = last.pre.end_col_int + last.arg.n
       /\ col_to_int(end_col) = last.pre.end_col_int + last.arg.n
       /\ Components(Self) = [Components(last.pre) EXCEPT !.ec = end_col]

\* ------------------------------------------------------------------ C10
\* C10: append and reduce are inverse on a bounded dimension. When
\* append_rows(n) and then reduce_rows(n) (or reduce_rows(n) and then
\* append_rows(n)) both succeed on a valid Range with a start and an end row,
\* the end row is again what it was before the first call; likewise the end
\* column for append_cols(n) and reduce_cols(n) on a Range with a start and an
\* end column.
InversePair(first, second) ==
  /\ last.op = first
  /\ last'.op = second
  /\ last'.arg.n = last.arg.n
  /\ last.pre.a1 # << >>
  /\ last.ret = "True"
  /\ last'.ret = "True"

C10_AppendReduceInverse ==
  [][ /\ (/\ \/ InversePair("append_rows", "reduce_rows")
             \/ InversePair("reduce_rows", "append_rows")
          /\ rows_bounded(last.pre))
         => end_row' = last.pre.end_row
      /\ (/\ \/ InversePair("append_cols", "reduce_cols")
             \/ InversePair("reduce_cols", "append_cols")
          /\ cols_bounded(last.pre))
         => end_col' = last.pre.end_col ]_vars

\* ------------------------------------------------------------------ C11
\* C11: appending to an unbounded dimension is a successful no-op.
\* append_rows(n) / reduce_rows(n) on a Range that is not rows-bounded, and
\* append_cols(n) / reduce_cols(n) on a Range that is not cols-bounded, return
\* True and leave the string and every component as they were, for every n.
C11_UnboundedAppendIsNoOp ==
  (\/ last.op \in {"append_rows", "reduce_rows"} /\ ~rows_bounded(last.pre)
   \/ last.op \in {"append_cols", "reduce_cols"} /\ ~cols_bounded(last.pre))
    => (last.ret = "True" /\ Self = last.pre)

\* append_cols(1) on a valid Range that has a start column and no end column
C11_Witness ==
  /\ last.op = "append_cols"
  /\ last.arg.n = 1
  /\ last.pre.a1 # << >>
  /\ last.pre.start_col # << >>
  /\ last.pre.end_col = << >>
  /\ last.ret = "True"
  /\ Self = last.pre

\* ------------------------------------------------------------------ C12
\* C12: reshape(rows, cols) on a valid Range with rows >= 0 and
\* 0 <= cols <= 18278 returns True and gives a Range on the same sheet whose
\* end row is rows and whose end column index is cols (0: that dimension is
\* unbounded), anchored at A1 unless both are 0; with a negative argument it
\* returns False and changes nothing.
C12_ReshapeResets ==
  (last.op = "reshape" /\ last.pre.a1 # << >>)
    => IF last.arg.n >= 0 /\ last.arg.m >= 0
            /\ last.arg.m <= GoogleSheetsMaxColumns
       THEN /\ last.ret = "True"
            /\ a1 # << >>
            /\ sheet = last.pre.sheet
            /\ end_row = last.arg.n
            /\ end_col_int = last.arg.m
            /\ (last.arg.n > 0 \/ last.arg.m > 0)
                 => (start_col = << "A" >> /\ start_row = 1)
       ELSE last.ret = "False" /\ Self = last.pre

\* ------------------------------------------------------------------ C13
\* the rows and the column indexes a range spans
RowLo(r) == IF r.start_row <= r.end_row THEN r.start_row ELSE r.end_row
RowHi(r) == IF r.start_row <= r.end_row THEN r.end_row ELSE r.start_row
RowsWithin(a, r) == RowLo(a) >= RowLo(r) /\ RowHi(a) <= RowHi(r)
ColsWithin(a, r) ==
  a.start_col_int >= r.start_col_int /\ a.end_col_int <= r.end_col_int

\* contains was asked of a valid range about a valid range of the same title
SameSheetQuery ==
  /\ call.fn = "contains"
  /\ valid(Self)
  /\ valid(call.other)
  /\ call.other.sheet = sheet

\* C13: containment is decided per bounded dimension of the outer range.
\* For valid ranges on the same sheet: an outer range bounded in both
\* dimensions contains exactly the fully bounded ranges whose column interval
\* and row interval lie within its own; an outer range bounded in rows only
\* contains exactly the rows-bounded ranges whose row interval lies within
\* its own; an outer range bounded in columns only contains exactly the
\* cols-bounded ranges whose column interval lies within its own.
C13_ContainsPerDimension ==
  SameSheetQuery
    => /\ bounded(Self)
            => (call.ret <=> /\ bounded(call.other)
                             /\ ColsWithin(call.other, Self)
                             /\ RowsWithin(call.other, Self))
       /\ (rows_bounded(Self) /\ ~cols_bounded(Self))
            => (call.ret <=> /\ rows_bounded(call.other)
                             /\ RowsWithin(call.other, Self))
       /\ (cols_bounded(Self) /\ ~rows_bounded(Self))
            => (call.ret <=> /\ cols_bounded(call.other)
                             /\ ColsWithin(call.other, Self))

\* ------------------------------------------------------------------ C14
\* a title without the quotes that wrap it
Unquoted(t) ==
  IF Len(t) >= 3 /\ t[1] \in {DQ, SQ} /\ t[Len(t)] = t[1]
  THEN SubSeq(t, 2, Len(t) - 1) ELSE t

\* C14: contains is false whenever either range is invalid or the two titles
\* differ once normalized, whatever the bounds; and a title spelled with or
\* without quotes is the same sheet, so that the answer for a range whose
\* title differs from the outer one in its quotes only is the answer for the
\* same range under the outer title.
C14_ContainsNeedsSameSheet ==
  (call.fn = "contains")
    => /\ (\/ ~valid(Self)
           \/ ~valid(call.other)
           \/ Unquoted(call.other.sheet) # Unquoted(sheet)) => ~call.ret
       /\ (/\ valid(Self)
           /\ valid(call.other)
           /\ Unquoted(call.other.sheet) = Unquoted(sheet))
            => (call.ret <=> contains(Self, [call.other EXCEPT !.sheet = sheet]))

\* ------------------------------------------------------------------ C15
\* C15: a valid outer range unbounded in both dimensions contains every
\* valid range of the same title, whatever that range's bounds.
C15_UnboundedOuterContainsAll ==
  (SameSheetQuery /\ ~rows_bounded(Self) /\ ~cols_bounded(Self)) => call.ret

\* the title-only range t was asked about a fully bounded range of sheet t
C15_Witness ==
  /\ SameSheetQuery
  /\ a1 = << "t" >>
  /\ bounded(call.other)
  /\ call.ret

\* ------------------------------------------------------------------ C16
\* C16: containment is reflexive. Every valid range contains an equal copy
\* of itself, whatever its bounds, also when its start row is above its end
\* row.
C16_ContainsReflexive ==
  (call.fn = "contains" /\ valid(Self) /\ call.other = Self) => call.ret

\* a fully bounded range whose start row is above its end row was asked
\* about an equal copy
C16_Witness ==
  /\ call.fn = "contains"
  /\ valid(Self)
  /\ call.other = Self
  /\ bounded(Self)
  /\ start_row > end_row
  /\ call.ret

\* ------------------------------------------------------------------ C17
\* C17: len of a valid fully bounded range is
\* (end row - start row) * (end column index - start column index + 1), and
\* len is 0 for every range that is not fully bounded.
C17_CellCount ==
  (call.fn = "len")
    => /\ ~call.raised
       /\ call.value =
            IF valid(Self) /\ bounded(Self)
            THEN (end_row - start_row) * (end_col_int - start_col_int + 1)
            ELSE 0

\* ------------------------------------------------------------------ C18
\* C18: parsing never raises and fails silently. GoogleSheetsA1Notation(s)
\* returns for every string s, and gives, for a string s that is not valid
\* notation, the invalid Range: valid() is false,
\* the stored string is empty and every component is empty or 0, never a
\* partly filled value; for valid notation it gives a valid Range.
C18_InvalidIsSentinel ==
  (last.op = "__init__" /\ steps = 0)
    => /\ last.ret # "raise"
       /\ IF last.arg.str # << >> /\ valid_dimensions(extract_a1(last.arg.str))
          THEN valid(Self) /\ a1 = last.arg.str
          ELSE ~valid(Self) /\ Self = reset

\* ------------------------------------------------------------------ C19
\* the bounds of the range r against the groups m matched in its string
Anchored(r, m) ==
  /\ (r.start_col # << >>) <=> (r.start_row # 0)
  /\ m.matched
       => /\ (m.start_col = << >> /\ row_of(m.start_row) # 0)
               => (r.start_col = << "A" >> /\ r.start_row = row_of(m.start_row))
          /\ (m.start_col # << >> /\ row_of(m.start_row) = 0)
               => (r.start_col = m.start_col /\ r.start_row = 1)
          /\ r.end_col = m.end_col
          /\ r.end_row = row_of(m.end_row)

\* C19: start-side anchoring. After parsing and after every call, a valid
\* Range has a start column exactly when it has a start row: a start row
\* alone gives start column A, a start column alone gives start row 1; the
\* end column and end row are what the string literally holds, never inferred.
C19_StartAnchored ==
  valid(Self) => Anchored(Self, a1_re(a1))

\* the Range constructed from t!4:AA
C19_Witness ==
  /\ a1 = << "t", "!", "4", ":", "A", "A" >>
  /\ start_col = << "A" >>
  /\ start_row = 4
  /\ end_col = << "A", "A" >>
  /\ end_row = 0

\* ------------------------------------------------------------------ C20
\* the groups m hold an end bound and no start bound, or nothing at all
EndWithoutStart(m) ==
  /\ m.matched
  /\ m.start_col = << >> /\ m.start_row = << >>
  /\ \/ m.end_col # << >>
     \/ m.end_row # << >>
     \/ m.sheet = << >>

TitleBang(str) ==
  /\ Len(str) >= 2
  /\ str[Len(str)] = "!"
  /\ title_re(SubSeq(str, 1, Len(str) - 1))

\* C21: a title followed by '!' with no bound after it is invalid: the
\* Range constructed from "title!" is the invalid Range.
C21_TitleBangInvalid ==
  (last.op = "__init__" /\ steps = 0 /\ TitleBang(last.arg.str))
    => (~valid(Self) /\ Self = reset)

\* ------------------------------------------------------------------ C22
\* position of the first '!' of s, 0 when it has none
BangAt(s) ==
  IF \E k \in 1..Len(s) : s[k] = "!"
  THEN CHOOSE k \in 1..Len(s) : s[k] = "!" /\ \A j \in 1..(k - 1) : s[j] # "!"
  ELSE 0

\* cell is a column label followed by a row number
CellRef(cell) ==
  /\ side_re(cell)
  /\ side_col(cell) # << >>
  /\ side_row(cell) # << >>

\* the string is title!<col><row>, its '!' at k
SingleCellAt(str, k) ==
  /\ k > 1
  /\ title_re(SubSeq(str, 1, k - 1))
  /\ CellRef(SubSeq(str, k + 1, Len(str)))

\* the range r is the one cell named after the '!' at k of str
IsCellOf(r, str, k) ==
  /\ valid(r)
  /\ r.sheet = SubSeq(str, 1, k - 1)
  /\ r.start_col = side_col(SubSeq(str, k + 1, Len(str)))
  /\ r.start_row = int_of(side_row(SubSeq(str, k + 1, Len(str))))

\* C22: a single cell with no colon is accepted: the Range constructed from
\* "title!<col><row>" is valid, with that title, start column and start row.
C22_SingleCellAccepted ==
  (last.op = "__init__" /\ steps = 0
     /\ SingleCellAt(last.arg.str, BangAt(last.arg.str)))
    => IsCellOf(Self, last.arg.str, BangAt(last.arg.str))

\* ------------------------------------------------------------------ C23
\* C23: a string that is only a sheet title (word characters, or a quoted
\* string) parses as valid, with that title and the four bounds unbounded.
C23_TitleOnlyValid ==
  (last.op = "__init__" /\ steps = 0 /\ title_re(last.arg.str))
    => /\ valid(Self)
       /\ sheet = last.arg.str
       /\ start_col = << >> /\ end_col = << >>
       /\ start_row = 0 /\ end_row = 0

\* the Range constructed from the quoted title "t"
C23_Witness ==
  /\ last.op = "__init__"
  /\ last.arg.str = << DQ, "t", DQ >>
  /\ valid(Self)
  /\ sheet = << DQ, "t", DQ >>
  /\ start_col = << >> /\ end_col = << >>
  /\ start_row = 0 /\ end_row = 0

\* ------------------------------------------------------------------ C30
\* C30: the cell count is never negative. For every valid Range reached by
\* parsing and by any calls, __len__ is >= 0, also when the start row is
\* above the end row, so that len() of a Range never fails.
C30_LenNeverNegative ==
  valid(Self) => (__len__(Self) >= 0 /\ ~len(Self).raised)

\* ------------------------------------------------------------------ C24
\* the title given to the last update or sheet assignment, << >> when none
TitleGiven ==
  IF last.op = "sheet.setter" THEN last.arg.str
  ELSE IF last.op = "update" /\ last.arg.upd[1].t = "str"
       THEN last.arg.upd[1].s
       ELSE << >>

\* t is wrapped in a pair of double or of single quotes
QuoteWrapped(t) ==
  /\ Len(t) >= 3
  /\ t[1] \in { DQ, SQ }
  /\ t[Len(t)] = t[1]

\* the title as it is to be rendered
ExpectedTitle(t) ==
  IF bareword_re(t) \/ QuoteWrapped(t) THEN t ELSE << DQ >> \o t \o << DQ >>

\* s begins with the title t, followed by '!' or by nothing
BeginsWithTitle(s, t) ==
  /\ Len(s) >= Len(t)
  /\ SubSeq(s, 1, Len(t)) = t
  /\ (Len(s) > Len(t) => s[Len(t) + 1] = "!")

\* C24: title quoting. When update or the sheet setter is given a non-empty
\* title and generate_a1 returns, the rendered string begins with the title
\* unchanged if it is a bareword or already quote-wrapped, and with the
\* title wrapped in double quotes otherwise.
C24_TitleQuoting ==
  (TitleGiven # << >> /\ ~last.gen.raised)
    => BeginsWithTitle(last.gen.a1, ExpectedTitle(TitleGiven))

\* ------------------------------------------------------------------ C25
\* the string assigned through the a1 setter is not a valid notation
AssignedInvalid ==
  \/ extract_raises(last.arg.str)
  \/ ~valid_dimensions(extract_a1(last.arg.str))

\* C25: explicit setters fail loudly. An a1 assignment of an invalid
\* notation, and a sheet assignment of a title that does not render into a
\* valid range, raise and leave the Range as it was.
C25_SettersFailLoudly ==
  /\ (last.op = "a1.setter" /\ AssignedInvalid)
       => (last.ret = "raise" /\ Self = last.pre)
  /\ (last.op = "sheet.setter" /\ RenderedInvalid)
       => (last.ret = "raise" /\ Self = last.pre)

\* ------------------------------------------------------------------ C28
\* C28: equality follows the components. Two valid Ranges compare equal
\* exactly when they have the same title and the same four bounds, however
\* each string was spelled.
C28_EqualityFollowsComponents ==
  (call.fn = "eq" /\ valid(Self) /\ valid(call.other))
    => (call.ret <=> Components(Self) = Components(call.other))

\* ------------------------------------------------------------------ C29
\* C29: containment is transitive. If this range contains a second and the
\* second contains a third, this range contains the third, for every mix of
\* bounded, rows-only, cols-only and unbounded ranges.
C29_ContainsTransitive ==
  (call.fn = "chain" /\ call.ab /\ call.bc) => call.ac

\* a rows-only range holding a bounded range that holds a smaller one
C29_Witness ==
  /\ call.fn = "chain"
  /\ valid(Self) /\ rows_bounded(Self) /\ ~cols_bounded(Self)
  /\ bounded(call.other)
  /\ bounded(call.third)
  /\ call.third # call.other
  /\ call.ab /\ call.bc /\ call.ac

\* ------------------------------------------------------------------ C27
\* C27: update_a1 agrees with update. For a valid string and any overrides,
\* update_a1 returns the string that update on the Range of that string
\* stores; with no override it returns a string with the components of the
\* string it was given.
C27_UpdateA1AgreesWithUpdate ==
  (call.fn = "update_a1")
    => /\ call.inst.ret = "True"
            => (~call.ret.raised /\ call.ret.a1 = call.inst.r.a1)
       /\ call.upd = NoUpd
            => /\ ~call.ret.raised
               /\ Components(construct(call.ret.a1)) = Components(Self)

\* ------------------------------------------------------------------ C26
\* one of the option strings of the last helper call is outside its enum
OptionOutsideEnum ==
  \/ call.fn = "getValues" /\ dimension(call.first) = << >>
  \/ call.fn = "updateValues" /\ valueInputOption(call.first) = << >>
  \/ valueRenderOption(call.valueRenderOption) = << >>
  \/ dateTimeRenderOption(call.dateTimeRenderOption) = << >>

\* C26: the request helpers validate their options before calling out.
\* getValues and updateValues given a dimension, valueRenderOption,
\* valueInputOption or dateTimeRenderOption outside the accepted enum raise,
\* and issue no batchGet/batchUpdate request.
C26_OptionsValidatedBeforeRequest ==
  (call.fn \in { "getValues", "updateValues" } /\ OptionOutsideEnum)
    => (call.out.raised /\ call.out.requests = 0)

====
